---- MODULE Spec2Model ----
(***************************************************************************)
(* react-testgen (src/src/index.ts): a command-line tool that walks a      *)
(* directory tree, finds .tsx component files and writes a test stem       *)
(* <Base>.test.tsx beside each one that has none.                          *)
(*                                                                         *)
(* Strings are sequences of one-character strings, so that startsWith,     *)
(* endsWith, extname, the regular expressions and the template literals    *)
(* are computed character by character.  A path is a sequence of segments  *)
(* (each a string); the root of the file system is the empty sequence.     *)
(***************************************************************************)
EXTENDS Integers, Sequences, FiniteSets, TLC

VARIABLES argv, opts, pc, fs, unreadable, unwritable, root, files, idx, log,
          reads, written, skipped, exitCode, failedAt, run, fsStart, prev,
          inPath, inSource, info, rendered

vars == <<argv, opts, pc, fs, unreadable, unwritable, root, files, idx, log,
          reads, written, skipped, exitCode, failedAt, run, fsStart, prev,
          inPath, inSource, info, rendered>>

mainVars == <<pc, fs, unreadable, unwritable, root, files, idx, log,
              reads, written, skipped, exitCode, failedAt, run, fsStart, prev>>

inferVars == <<inPath, inSource, info, rendered>>

---------------------------------------------------------------------------
(* Bounds of the model.                                                    *)

\* the longest command line of SpecArgs
MaxArgs == 3
\* the number of source snippets a component source of SpecInfer is made of
MaxChunks == 2
\* the number of successive invocations of the tool in Spec
MaxRuns == 2

---------------------------------------------------------------------------
(* String primitives of JavaScript.                                        *)

Last(s) == s[Len(s)]
Front(s) == SubSeq(s, 1, Len(s) - 1)

RECURSIVE Flatten(_)
Flatten(ss) == IF ss = <<>> THEN <<>> ELSE Head(ss) \o Flatten(Tail(ss))

startsWith(s, p) == Len(p) <= Len(s) /\ SubSeq(s, 1, Len(p)) = p

endsWith(s, p) == Len(p) <= Len(s) /\ SubSeq(s, Len(s) - Len(p) + 1, Len(s)) = p

LowerCase == <<"a","b","c","d","e","f","g","h","i","j","k","l","m","n","o","p","q","r","s","t","u","v","w","x","y","z">>
UpperCase == <<"A","B","C","D","E","F","G","H","I","J","K","L","M","N","O","P","Q","R","S","T","U","V","W","X","Y","Z">>
Digits == <<"0","1","2","3","4","5","6","7","8","9">>

toUpperCase(c) ==
    IF \E k \in 1..Len(LowerCase) : LowerCase[k] = c
    THEN UpperCase[CHOOSE k \in 1..Len(LowerCase) : LowerCase[k] = c]
    ELSE c

Range(s) == {s[k] : k \in 1..Len(s)}

\* the character class [A-Za-z0-9_]
IdentChars == Range(LowerCase) \cup Range(UpperCase) \cup Range(Digits) \cup {"_"}
\* the character class \s, as far as the texts of the model use it
SpaceChars == {" ", "\n", "\t"}

\* s.indexOf(p) >= 0
includes(s, p) == \E k \in 1..(Len(s) - Len(p) + 1) : SubSeq(s, k, k + Len(p) - 1) = p

---------------------------------------------------------------------------
(* Node's path module (POSIX), on segment sequences.                       *)

\* path.extname of a file name: from the last dot, unless the name has no dot,
\* the last dot is the first character, or the name is ".."
extname(name) ==
    LET dots == {k \in 1..Len(name) : name[k] = "."} IN
    IF dots = {} THEN <<>>
    ELSE LET d == CHOOSE k \in dots : \A m \in dots : m <= k IN
         IF d = 1 \/ name = <<".", ".">> THEN <<>>
         ELSE SubSeq(name, d, Len(name))

\* path.basename(p, ext) of a file name
basename(name, ext) ==
    IF ext # <<>> /\ name # ext /\ endsWith(name, ext)
    THEN SubSeq(name, 1, Len(name) - Len(ext))
    ELSE name

dirname(p) == Front(p)

join(dir, name) == Append(dir, name)

\* the segments of a string: the pieces between "/"
RECURSIVE SplitFrom(_, _, _)
SplitFrom(s, k, cur) ==
    IF k > Len(s) THEN <<cur>>
    ELSE IF s[k] = "/" THEN <<cur>> \o SplitFrom(s, k + 1, <<>>)
    ELSE SplitFrom(s, k + 1, Append(cur, s[k]))

Split(s) == SplitFrom(s, 1, <<>>)

\* path normalisation: "" and "." are dropped, ".." removes the segment before it
RECURSIVE Normalize(_, _)
Normalize(acc, segs) ==
    IF segs = <<>> THEN acc
    ELSE LET h == Head(segs) IN
         IF h = <<>> \/ h = <<".">> THEN Normalize(acc, Tail(segs))
         ELSE IF h = <<".", ".">>
              THEN Normalize(IF acc = <<>> THEN acc ELSE Front(acc), Tail(segs))
         ELSE Normalize(Append(acc, h), Tail(segs))

\* path.resolve(cwd, p)
resolve(cwd, p) ==
    IF startsWith(p, <<"/">>) THEN Normalize(<<>>, Split(p))
    ELSE Normalize(cwd, Split(p))

RECURSIVE CommonLen(_, _)
CommonLen(a, b) ==
    IF a = <<>> \/ b = <<>> \/ Head(a) # Head(b) THEN 0
    ELSE 1 + CommonLen(Tail(a), Tail(b))

\* path.relative(from, to): ".." for every segment of from past the common
\* prefix, then the rest of to; both are absolute and normalised here
relative(from, to) ==
    LET c == CommonLen(from, to) IN
    [k \in 1..(Len(from) - c) |-> <<".", ".">>] \o SubSeq(to, c + 1, Len(to))

\* a relative path as text: its segments joined by the separator
RECURSIVE JoinSep(_)
JoinSep(segs) ==
    IF segs = <<>> THEN <<>>
    ELSE IF Len(segs) = 1 THEN Head(segs)
    ELSE Head(segs) \o <<"/">> \o JoinSep(Tail(segs))

---------------------------------------------------------------------------
(* CLI args.                                                               *)

DryRunFlag == <<"-","-","d","r","y","-","r","u","n">>
ForceFlag == <<"-","-","f","o","r","c","e">>
DefaultRoot == <<"s","r","c">>

RECURSIVE parseArgsLoop(_, _, _)
parseArgsLoop(args, k, acc) ==
    IF k > Len(args) THEN acc
    ELSE LET arg == args[k] IN
         parseArgsLoop(args, k + 1,
            IF arg = DryRunFlag THEN [acc EXCEPT !.dryRun = TRUE]
            ELSE IF arg = ForceFlag THEN [acc EXCEPT !.force = TRUE]
            ELSE IF ~startsWith(arg, <<"-">>) THEN [acc EXCEPT !.rootDir = arg]
            ELSE acc)

parseArgs(args) ==
    parseArgsLoop(args, 1, [rootDir |-> DefaultRoot, dryRun |-> FALSE, force |-> FALSE])

NoOpts == [rootDir |-> <<>>, dryRun |-> FALSE, force |-> FALSE]

---------------------------------------------------------------------------
(* File discovery.                                                         *)

COMPONENT_EXTENSIONS == {<<".","t","s","x">>}

ExcludedDirs == {<<"n","o","d","e","_","m","o","d","u","l","e","s">>, <<"d","i","s","t">>, <<"b","u","i","l","d">>, <<".","g","i","t">>}

TestSuffix == <<".","t","e","s","t",".","t","s","x">>
StoriesSuffix == <<".","s","t","o","r","i","e","s",".","t","s","x">>

\* line 61: a directory entry the walk passes over without descending
IsExcludedDir(name) == name \in ExcludedDirs

\* the exclusion without its first test: test files pass
IsExcludedFileNoTest(name) ==
    endsWith(name, StoriesSuffix) \/ startsWith(name, <<".">>)

\* lines 66-70: a file entry the walk passes over before it looks at the extension
IsExcludedFile(name) ==
    \/ endsWith(name, TestSuffix)
    \/ endsWith(name, StoriesSuffix)
    \/ startsWith(name, <<".">>)

DirNode(entries) == [kind |-> "dir", entries |-> entries, text |-> <<>>]
FileNode(text) == [kind |-> "file", entries |-> <<>>, text |-> text]

\* fs.readdir(dir) rejects: dir is missing, is no directory, or may not be read
readdirFails(F, U, dir) == dir \notin DOMAIN F \/ F[dir].kind # "dir" \/ dir \in U

RECURSIVE walk(_, _, _), walkEntries(_, _, _, _)
walk(F, U, dir) ==
    IF readdirFails(F, U, dir) THEN <<>>
    ELSE walkEntries(F, U, dir, 1)

walkEntries(F, U, dir, k) ==
    IF k > Len(F[dir].entries) THEN <<>>
    ELSE LET name == F[dir].entries[k]
             fullPath == join(dir, name)
             rest == walkEntries(F, U, dir, k + 1)
         IN  IF F[fullPath].kind = "dir"
             THEN IF IsExcludedDir(name) THEN rest
                  ELSE walk(F, U, fullPath) \o rest
             ELSE IF IsExcludedFile(name) THEN rest
             ELSE IF extname(name) \in COMPONENT_EXTENSIONS
                  THEN <<fullPath>> \o rest
             ELSE rest

findComponentFiles(F, U, rootDir) == walk(F, U, rootDir)

getTestPath(filePath) ==
    LET dir == dirname(filePath)
        base == basename(Last(filePath), extname(Last(filePath)))
    IN  join(dir, base \o TestSuffix)

---------------------------------------------------------------------------
(* Export introspection.                                                   *)

\* the elements of the regular expressions: a literal, \s+, \s*, and the
\* capture group ([A-Za-z0-9_]+)
Lit(v) == [t |-> "lit", v |-> v]
Sp1 == [t |-> "s+", v |-> <<>>]
Sp0 == [t |-> "s*", v |-> <<>>]
Name == [t |-> "name", v |-> <<>>]

\* the last index of the longest run of characters of C that starts at k
RECURSIVE RunEnd(_, _, _)
RunEnd(s, k, C) == IF k <= Len(s) /\ s[k] \in C THEN RunEnd(s, k + 1, C) ELSE k - 1

NoMatch == [ok |-> FALSE, name |-> <<>>]

\* the pattern matched at position k.  Every quantified class is followed by
\* a character outside it, so the greedy match is the only one.
RECURSIVE MatchAt(_, _, _, _)
MatchAt(s, k, pat, cap) ==
    IF pat = <<>> THEN [ok |-> TRUE, name |-> cap]
    ELSE LET e == Head(pat) IN
         CASE e.t = "lit" ->
                IF k + Len(e.v) - 1 <= Len(s) /\ SubSeq(s, k, k + Len(e.v) - 1) = e.v
                THEN MatchAt(s, k + Len(e.v), Tail(pat), cap)
                ELSE NoMatch
           [] e.t = "s+" ->
                LET j == RunEnd(s, k, SpaceChars) IN
                IF j >= k THEN MatchAt(s, j + 1, Tail(pat), cap) ELSE NoMatch
           [] e.t = "s*" ->
                MatchAt(s, RunEnd(s, k, SpaceChars) + 1, Tail(pat), cap)
           [] e.t = "name" ->
                LET j == RunEnd(s, k, IdentChars) IN
                IF j >= k THEN MatchAt(s, j + 1, Tail(pat), SubSeq(s, k, j))
                ELSE NoMatch

\* source.match(pattern): the leftmost match
match(s, pat) ==
    LET hits == {k \in 1..Len(s) : MatchAt(s, k, pat, <<>>).ok} IN
    IF hits = {} THEN NoMatch
    ELSE MatchAt(s, CHOOSE k \in hits : \A m \in hits : k <= m, pat, <<>>)

kwExport == <<"e","x","p","o","r","t">>
kwDefault == <<"d","e","f","a","u","l","t">>
kwFunction == <<"f","u","n","c","t","i","o","n">>
kwConst == <<"c","o","n","s","t">>

\* /export\s+default\s+function\s+([A-Za-z0-9_]+)/
ReDefaultFunction == <<Lit(kwExport), Sp1, Lit(kwDefault), Sp1, Lit(kwFunction), Sp1, Name>>
\* /export\s+default\s+([A-Za-z0-9_]+)/
ReDefault == <<Lit(kwExport), Sp1, Lit(kwDefault), Sp1, Name>>
\* /export\s+function\s+([A-Za-z0-9_]+)/
ReFunction == <<Lit(kwExport), Sp1, Lit(kwFunction), Sp1, Name>>
\* /export\s+const\s+([A-Za-z0-9_]+)\s*=\s*\(/
ReConst == <<Lit(kwExport), Sp1, Lit(kwConst), Sp1, Name, Sp0, Lit(<<"=">>), Sp0, Lit(<<"(">>)>>

\* .replace(/\\/g, '/')
replaceBackslashes(s) == [k \in 1..Len(s) |-> IF s[k] = "\\" THEN "/" ELSE s[k]]

\* .replace(/\.tsx?$/, '')
stripTsExtension(s) ==
    IF endsWith(s, <<".","t","s","x">>) THEN SubSeq(s, 1, Len(s) - 4)
    ELSE IF endsWith(s, <<".","t","s">>) THEN SubSeq(s, 1, Len(s) - 3)
    ELSE s

relativeImport(filePath) ==
    stripTsExtension(replaceBackslashes(
        JoinSep(relative(dirname(getTestPath(filePath)), filePath))))

defaultImportLine(name, rel) == <<"i","m","p","o","r","t"," ">> \o name \o <<" ","f","r","o","m"," ","\"">> \o rel \o <<"\"",";">>
namedImportLine(name, rel) == <<"i","m","p","o","r","t"," ","{"," ">> \o name \o <<" ","}"," ","f","r","o","m"," ","\"">> \o rel \o <<"\"",";">>
jsxTagOf(name) == <<"<">> \o name \o <<" ","/",">">>

ExportInfo(name, line) == [importName |-> name, importLine |-> line, jsxTag |-> jsxTagOf(name)]

GenericName == <<"C","o","m","p","o","n","e","n","t","U","n","d","e","r","T","e","s","t">>

\* baseName.charAt(0).toUpperCase() + baseName.slice(1) || 'ComponentUnderTest'
fallbackName(baseName) ==
    IF baseName = <<>> THEN GenericName
    ELSE <<toUpperCase(baseName[1])>> \o Tail(baseName)

\* the rules tried in another order: `export const` before the default exports
inferExportInfoConstFirst(filePath, source) ==
    LET baseName == basename(Last(filePath), extname(Last(filePath)))
        rel == relativeImport(filePath)
        m1 == match(source, ReDefaultFunction)
        m2 == match(source, ReDefault)
        m3 == match(source, ReFunction)
        m4 == match(source, ReConst)
    IN  IF m4.ok THEN ExportInfo(m4.name, namedImportLine(m4.name, rel))
        ELSE IF m1.ok THEN ExportInfo(m1.name, defaultImportLine(m1.name, rel))
        ELSE IF m2.ok THEN ExportInfo(m2.name, defaultImportLine(m2.name, rel))
        ELSE IF m3.ok THEN ExportInfo(m3.name, namedImportLine(m3.name, rel))
        ELSE ExportInfo(fallbackName(baseName), defaultImportLine(fallbackName(baseName), rel))

\* lines 96-156: the four rules in the order the code tries them, then the
\* fallback; source is what readFile returned
inferExportInfo(filePath, source) ==
    LET baseName == basename(Last(filePath), extname(Last(filePath)))
        rel == relativeImport(filePath)
        m1 == match(source, ReDefaultFunction)
        m2 == match(source, ReDefault)
        m3 == match(source, ReFunction)
        m4 == match(source, ReConst)
    IN  IF m1.ok THEN ExportInfo(m1.name, defaultImportLine(m1.name, rel))
        ELSE IF m2.ok THEN ExportInfo(m2.name, defaultImportLine(m2.name, rel))
        ELSE IF m3.ok THEN ExportInfo(m3.name, namedImportLine(m3.name, rel))
        ELSE IF m4.ok THEN ExportInfo(m4.name, namedImportLine(m4.name, rel))
        ELSE ExportInfo(fallbackName(baseName), defaultImportLine(fallbackName(baseName), rel))

NoInfo == [importName |-> <<>>, importLine |-> <<>>, jsxTag |-> <<>>]

---------------------------------------------------------------------------
(* Test template.  The interpolated parts are character sequences; each    *)
(* run of fixed boilerplate between them is kept whole, as one element.    *)

TemplateHead == <<"import { render, screen } from \"@testing-library/react\";\nimport \"@testing-library/jest-dom\";\n">>
TemplateDescribe == <<"\n\ndescribe(\"">>
TemplateIt == <<"\", () => {\n  it(\"renders without crashing\", () => {\n    render(">>
TemplateTail == <<");\n    // TODO: replace this with meaningful assertions\n    // Example:\n    // expect(screen.getByText(/some text/i)).toBeInTheDocument();\n  });\n});\n">>

createTestTemplate(filePath, exportInfo) ==
    LET componentLabel == basename(Last(filePath), extname(Last(filePath))) IN
    TemplateHead \o exportInfo.importLine \o TemplateDescribe \o componentLabel
        \o TemplateIt \o exportInfo.jsxTag \o TemplateTail

---------------------------------------------------------------------------
(* The file-system snapshots the tool is run on.  The working directory is *)
(* /p; it holds src (components, a stories file, a hidden file, a          *)
(* dependency directory and a sub-directory ui with its own dist), the     *)
(* build output and the repository metadata.                               *)

Cwd == <<<<"p">>>>

SrcDir == join(Cwd, <<"s","r","c">>)
UiDir == join(SrcDir, <<"u","i">>)
ModulesDir == join(SrcDir, <<"n","o","d","e","_","m","o","d","u","l","e","s">>)
BuildDir == join(Cwd, <<"b","u","i","l","d">>)
GitDir == join(Cwd, <<".","g","i","t">>)
DistDir == join(UiDir, <<"d","i","s","t">>)

ButtonFile == join(SrcDir, <<"B","u","t","t","o","n",".","t","s","x">>)
WidgetFile == join(SrcDir, <<"w","i","d","g","e","t",".","t","s","x">>)
CardFile == join(UiDir, <<"C","a","r","d",".","t","s","x">>)
ButtonTest == join(SrcDir, <<"B","u","t","t","o","n",".","t","e","s","t",".","t","s","x">>)
WidgetTest == join(SrcDir, <<"w","i","d","g","e","t",".","t","e","s","t",".","t","s","x">>)
CardTest == join(UiDir, <<"C","a","r","d",".","t","e","s","t",".","t","s","x">>)

ButtonSource == <<"e","x","p","o","r","t"," ","d","e","f","a","u","l","t"," ","f","u","n","c","t","i","o","n"," ","B","u","t","t","o","n","(",")"," ","{","}","\n">>
WidgetSource == <<"c","o","n","s","t"," ","x"," ","="," ","1",";","\n">>
CardSource == <<"e","x","p","o","r","t"," ","c","o","n","s","t"," ","C","a","r","d"," ","="," ","(",")"," ","=",">"," ","n","u","l","l",";","\n">>
OutSource == <<"e","x","p","o","r","t"," ","f","u","n","c","t","i","o","n"," ","O","u","t","(",")"," ","{","}","\n">>
OldTest == <<"/","/"," ","o","l","d","\n">>

BaseFS ==
    (Cwd :> DirNode(<<<<".","g","i","t">>, <<"s","r","c">>, <<"b","u","i","l","d">>>>))
    @@ (SrcDir :> DirNode(<<<<"B","u","t","t","o","n",".","t","s","x">>, <<"B","u","t","t","o","n",".","s","t","o","r","i","e","s",".","t","s","x">>, <<".","h","i","d","d","e","n",".","t","s","x">>,
                            <<"w","i","d","g","e","t",".","t","s","x">>, <<"u","t","i","l",".","t","s">>, <<"n","o","d","e","_","m","o","d","u","l","e","s">>, <<"u","i">>>>))
    @@ (ButtonFile :> FileNode(ButtonSource))
    @@ (join(SrcDir, <<"B","u","t","t","o","n",".","s","t","o","r","i","e","s",".","t","s","x">>) :> FileNode(ButtonSource))
    @@ (join(SrcDir, <<".","h","i","d","d","e","n",".","t","s","x">>) :> FileNode(ButtonSource))
    @@ (WidgetFile :> FileNode(WidgetSource))
    @@ (join(SrcDir, <<"u","t","i","l",".","t","s">>) :> FileNode(WidgetSource))
    @@ (ModulesDir :> DirNode(<<<<"L","i","b",".","t","s","x">>>>))
    @@ (join(ModulesDir, <<"L","i","b",".","t","s","x">>) :> FileNode(OutSource))
    @@ (UiDir :> DirNode(<<<<"d","i","s","t">>, <<"C","a","r","d",".","t","s","x">>>>))
    @@ (DistDir :> DirNode(<<<<"B","u","n","d","l","e",".","t","s","x">>>>))
    @@ (join(DistDir, <<"B","u","n","d","l","e",".","t","s","x">>) :> FileNode(OutSource))
    @@ (GitDir :> DirNode(<<<<"O","b","j",".","t","s","x">>>>))
    @@ (join(GitDir, <<"O","b","j",".","t","s","x">>) :> FileNode(OutSource))
    @@ (CardFile :> FileNode(CardSource))
    @@ (BuildDir :> DirNode(<<<<"O","u","t",".","t","s","x">>>>))
    @@ (join(BuildDir, <<"O","u","t",".","t","s","x">>) :> FileNode(OutSource))

\* F with a new entry p holding node
AddEntry(F, p, node) ==
    (p :> node) @@ [F EXCEPT ![dirname(p)].entries = Append(@, Last(p))]

RECURSIVE AddAll(_, _)
AddAll(F, adds) ==
    IF adds = <<>> THEN F
    ELSE AddAll(AddEntry(F, Head(adds)[1], Head(adds)[2]), Tail(adds))

\* what a snapshot may hold besides BaseFS: test files written earlier, and a
\* directory that has the name of a test file
Extras == << <<ButtonTest, FileNode(OldTest)>>,
             <<CardTest, FileNode(OldTest)>>,
             <<WidgetTest, DirNode(<<>>)>> >>

RECURSIVE Pick(_, _, _)
Pick(s, chosen, k) ==
    IF k > Len(s) THEN <<>>
    ELSE (IF k \in chosen THEN <<s[k]>> ELSE <<>>) \o Pick(s, chosen, k + 1)

Snapshots == {AddAll(BaseFS, Pick(Extras, c, 1)) : c \in SUBSET (1..Len(Extras))}

\* the command lines of the invocations
ArgvChoices == { <<>>,
                 <<DryRunFlag>>,
                 <<ForceFlag>>,
                 <<ForceFlag, DryRunFlag>>,
                 <<<<"b","u","i","l","d">>>>,
                 <<<<".">>>>,
                 <<<<"s","r","c","/","u","i">>, ForceFlag>>,
                 <<<<"-","v">>, <<"l","i","b">>>> }

---------------------------------------------------------------------------
(* Main.                                                                   *)

Running == -1

NoPrev == [ran |-> FALSE, opts |-> NoOpts, root |-> <<>>, exitCode |-> Running,
           written |-> {}]

Line(stream, text, path) == [stream |-> stream, text |-> text, path |-> path]

\* an existence check that never finds the file
accessNever(F, p) == FALSE

\* lines 197-203: fs.access(p) resolves
access(F, p) == p \in DOMAIN F

\* fs.readFile(p) rejects
readFileFails(F, U, p) == p \notin DOMAIN F \/ F[p].kind # "file" \/ p \in U

\* fs.writeFile(p) rejects
writeFileFails(F, W, p) == (p \in DOMAIN F /\ F[p].kind # "file") \/ p \in W

\* fs.writeFile(p, text): creates p or replaces its content
writeFile(F, p, text) ==
    IF p \in DOMAIN F THEN [F EXCEPT ![p] = FileNode(text)]
    ELSE AddEntry(F, p, FileNode(text))

\* the skip test with the negation of force dropped
BranchSkipOnForce(testExists, force, dryRun) ==
    IF testExists /\ force THEN "skip"
    ELSE IF dryRun THEN "dry" ELSE "write"

\* the dry-run test giving way to --force
BranchDryUnlessForce(testExists, force, dryRun) ==
    IF testExists /\ ~force THEN "skip"
    ELSE IF dryRun /\ ~force THEN "dry" ELSE "write"

\* lines 205-216: what the loop does with a file
Branch(testExists, force, dryRun) ==
    IF testExists /\ ~force THEN "skip"
    ELSE IF dryRun THEN "dry" ELSE "write"

\* a report that does not look at testExists
ReportAlwaysCreated(testExists) == "Created"

\* line 219: the word of the report
Report(testExists) == IF testExists THEN "Overwrote" ELSE "Created"

CurFile == files[idx]
CurTest == getTestPath(CurFile)
InLoop == pc = "loop" /\ idx <= Len(files)
CurBranch == Branch(access(fs, CurTest), opts.force, opts.dryRun)

ScanLine(r) == Line("out", "react-testgen: scanning", r)

\* lines 182-192: no component file under the root
ScanEmpty ==
    /\ pc = "start"
    /\ LET o == parseArgs(argv)
           r == resolve(Cwd, o.rootDir)
           found == findComponentFiles(fs, unreadable, r)
       IN  /\ found = <<>>
           /\ opts' = o
           /\ root' = r
           /\ files' = found
           /\ log' = <<ScanLine(r), Line("out", "No component files found.", <<>>)>>
    /\ pc' = "done"
    /\ exitCode' = 0
    /\ UNCHANGED <<argv, fs, unreadable, unwritable, idx, reads, written, skipped,
                   failedAt, run, fsStart, prev>>
    /\ UNCHANGED inferVars

\* lines 182-194: the loop starts on the files found
ScanFound ==
    /\ pc = "start"
    /\ LET o == parseArgs(argv)
           r == resolve(Cwd, o.rootDir)
           found == findComponentFiles(fs, unreadable, r)
       IN  /\ found # <<>>
           /\ opts' = o
           /\ root' = r
           /\ files' = found
           /\ log' = <<ScanLine(r)>>
    /\ pc' = "loop"
    /\ idx' = 1
    /\ UNCHANGED <<argv, fs, unreadable, unwritable, reads, written, skipped,
                   exitCode, failedAt, run, fsStart, prev>>
    /\ UNCHANGED inferVars

\* lines 195-208: the test file exists and --force is not given
Skip ==
    /\ InLoop
    /\ CurBranch = "skip"
    /\ skipped' = skipped \cup {CurFile}
    /\ idx' = idx + 1
    /\ UNCHANGED <<argv, opts, pc, fs, unreadable, unwritable, root, files, log,
                   reads, written, exitCode, failedAt, run, fsStart, prev>>
    /\ UNCHANGED inferVars

\* lines 225-229: the rejection reaches the handler of main().catch
Abort ==
    /\ log' = log \o <<Line("err", "react-testgen: error", CurFile)>>
    /\ failedAt' = idx
    /\ exitCode' = 1
    /\ pc' = "done"

\* the same rejection swallowed: the loop goes on with the next file
AbortContinues ==
    /\ log' = log \o <<Line("err", "react-testgen: error", CurFile)>>
    /\ failedAt' = idx
    /\ exitCode' = exitCode
    /\ pc' = pc

\* readFile rejects and the loop goes on: a per-file recovery the code has not
ReadFailContinues ==
    /\ InLoop
    /\ CurBranch # "skip"
    /\ readFileFails(fs, unreadable, CurFile)
    /\ AbortContinues
    /\ idx' = idx + 1
    /\ UNCHANGED <<argv, opts, fs, unreadable, unwritable, root, files,
                   reads, written, skipped, run, fsStart, prev>>
    /\ UNCHANGED inferVars

\* line 210 (95): readFile rejects
ReadFail ==
    /\ InLoop
    /\ CurBranch # "skip"
    /\ readFileFails(fs, unreadable, CurFile)
    /\ Abort
    /\ UNCHANGED <<argv, opts, fs, unreadable, unwritable, root, files, idx,
                   reads, written, skipped, run, fsStart, prev>>
    /\ UNCHANGED inferVars

\* lines 210-216: --dry-run reports and writes nothing
DryRun ==
    /\ InLoop
    /\ CurBranch = "dry"
    /\ ~readFileFails(fs, unreadable, CurFile)
    /\ reads' = reads \cup {CurFile}
    /\ log' = log \o <<Line("out", "[DRY RUN] Would create: ", CurTest)>>
    /\ idx' = idx + 1
    /\ UNCHANGED <<argv, opts, pc, fs, unreadable, unwritable, root, files,
                   written, skipped, exitCode, failedAt, run, fsStart, prev>>
    /\ UNCHANGED inferVars

\* lines 210-219: the test file is created or overwritten
Write ==
    /\ InLoop
    /\ CurBranch = "write"
    /\ ~readFileFails(fs, unreadable, CurFile)
    /\ ~writeFileFails(fs, unwritable, CurTest)
    /\ LET exportInfo == inferExportInfo(CurFile, fs[CurFile].text)
           template == createTestTemplate(CurFile, exportInfo)
       IN  fs' = writeFile(fs, CurTest, template)
    /\ reads' = reads \cup {CurFile}
    /\ written' = written \cup {CurTest}
    /\ log' = log \o <<Line("out", Report(access(fs, CurTest)), relative(Cwd, CurTest))>>
    /\ idx' = idx + 1
    /\ UNCHANGED <<argv, opts, pc, unreadable, unwritable, root, files,
                   skipped, exitCode, failedAt, run, fsStart, prev>>
    /\ UNCHANGED inferVars

\* line 218: writeFile rejects, when it opens the file (nothing changes) or
\* while it writes (the file is left created or truncated)
WriteFail ==
    /\ InLoop
    /\ CurBranch = "write"
    /\ ~readFileFails(fs, unreadable, CurFile)
    /\ writeFileFails(fs, unwritable, CurTest)
    /\ \/ fs' = fs
       \/ /\ CurTest \in unwritable
          /\ fs' = writeFile(fs, CurTest, <<>>)
    /\ reads' = reads \cup {CurFile}
    /\ Abort
    /\ UNCHANGED <<argv, opts, unreadable, unwritable, root, files, idx,
                   written, skipped, run, fsStart, prev>>
    /\ UNCHANGED inferVars

\* line 222: every file is done
Finish ==
    /\ pc = "loop"
    /\ idx > Len(files)
    /\ log' = log \o <<Line("out", "react-testgen: done.", <<>>)>>
    /\ exitCode' = 0
    /\ pc' = "done"
    /\ UNCHANGED <<argv, opts, fs, unreadable, unwritable, root, files, idx,
                   reads, written, skipped, failedAt, run, fsStart, prev>>
    /\ UNCHANGED inferVars

\* the tool is invoked again on the file system the last run left
NextRun ==
    /\ pc = "done"
    /\ run < MaxRuns
    /\ \E a \in ArgvChoices : argv' = a
    /\ prev' = [ran |-> TRUE, opts |-> opts, root |-> root, exitCode |-> exitCode,
                written |-> prev.written \cup written]
    /\ run' = run + 1
    /\ fsStart' = fs
    /\ pc' = "start"
    /\ opts' = NoOpts
    /\ root' = <<>>
    /\ files' = <<>>
    /\ idx' = 0
    /\ log' = <<>>
    /\ reads' = {}
    /\ written' = {}
    /\ skipped' = {}
    /\ exitCode' = Running
    /\ failedAt' = 0
    /\ UNCHANGED <<fs, unreadable, unwritable>>
    /\ UNCHANGED inferVars

InferIdle ==
    /\ inPath = <<>>
    /\ inSource = <<>>
    /\ info = NoInfo
    /\ rendered = <<>>

Init ==
    /\ argv \in ArgvChoices
    /\ fs \in Snapshots
    /\ unreadable \in {{}, {WidgetFile}}
    /\ unwritable \in {{}, {ButtonTest}}
    /\ fsStart = fs
    /\ pc = "start"
    /\ opts = NoOpts
    /\ root = <<>>
    /\ files = <<>>
    /\ idx = 0
    /\ log = <<>>
    /\ reads = {}
    /\ written = {}
    /\ skipped = {}
    /\ exitCode = Running
    /\ failedAt = 0
    /\ run = 1
    /\ prev = NoPrev
    /\ InferIdle

Next ==
    \/ ScanEmpty
    \/ ScanFound
    \/ Skip
    \/ ReadFail
    \/ DryRun
    \/ Write
    \/ WriteFail
    \/ Finish
    \/ NextRun

Spec == Init /\ [][Next]_vars

---------------------------------------------------------------------------
(* parseArgs on every command line of at most MaxArgs tokens.              *)

BoundedSeq(S, n) == UNION {[1..k -> S] : k \in 0..n}

ArgTokens == {DryRunFlag, ForceFlag, <<"-","v">>, <<"s","r","c">>, <<"l","i","b">>, <<>>}

MainIdle ==
    /\ fs = BaseFS
    /\ fsStart = BaseFS
    /\ unreadable = {}
    /\ unwritable = {}
    /\ root = <<>>
    /\ files = <<>>
    /\ idx = 0
    /\ log = <<>>
    /\ reads = {}
    /\ written = {}
    /\ skipped = {}
    /\ exitCode = Running
    /\ failedAt = 0
    /\ run = 1
    /\ prev = NoPrev

InitArgs ==
    /\ argv \in BoundedSeq(ArgTokens, MaxArgs)
    /\ opts = NoOpts
    /\ pc = "args"
    /\ MainIdle
    /\ InferIdle

\* line 182: main reads its options
ParseArgs ==
    /\ pc = "args"
    /\ opts' = parseArgs(argv)
    /\ pc' = "parsed"
    /\ UNCHANGED <<argv, fs, unreadable, unwritable, root, files, idx, log, reads,
                   written, skipped, exitCode, failedAt, run, fsStart, prev>>
    /\ UNCHANGED inferVars

NextArgs == ParseArgs

SpecArgs == InitArgs /\ [][NextArgs]_vars

---------------------------------------------------------------------------
(* inferExportInfo and createTestTemplate on component sources made of at  *)
(* most MaxChunks statements.                                              *)

SnipDefaultFunction == <<"e","x","p","o","r","t"," ","d","e","f","a","u","l","t"," ","f","u","n","c","t","i","o","n"," ","F","o","o","(",")"," ","{","}","\n">>
SnipDefault == <<"e","x","p","o","r","t"," ","d","e","f","a","u","l","t"," ","B","a","z",";","\n">>
SnipFunction == <<"e","x","p","o","r","t"," ","f","u","n","c","t","i","o","n"," ","Q","u","x","(",")"," ","{","}","\n">>
SnipConst == <<"e","x","p","o","r","t"," ","c","o","n","s","t"," ","B","a","r"," ","="," ","(",")"," ","=",">"," ","n","u","l","l",";","\n">>
SnipPlain == <<"c","o","n","s","t"," ","x"," ","="," ","1",";","\n">>
SnipClass == <<"e","x","p","o","r","t"," ","d","e","f","a","u","l","t"," ","c","l","a","s","s"," ","K","l","a","s","s"," ","{","}","\n">>
SnipHoc == <<"e","x","p","o","r","t"," ","d","e","f","a","u","l","t"," ","m","e","m","o","(","F","o","o",")",";","\n">>
SnipAnonymous == <<"e","x","p","o","r","t"," ","d","e","f","a","u","l","t"," ","f","u","n","c","t","i","o","n"," ","(",")"," ","{","}","\n">>
SnipReExport == <<"e","x","p","o","r","t"," ","{"," ","F","o","o"," ","}"," ","f","r","o","m"," ","\"",".","/","F","o","o","\"",";","\n">>
SnipValue == <<"e","x","p","o","r","t"," ","c","o","n","s","t"," ","y"," ","="," ","1",";","\n">>

\* the export forms the four rules are written for
SupportedSnippets == {SnipDefaultFunction, SnipDefault, SnipFunction, SnipConst}
\* statements that are none of them
UnsupportedSnippets ==
    {SnipPlain, SnipClass, SnipHoc, SnipAnonymous, SnipReExport, SnipValue}

Sources(S) == {Flatten(c) : c \in BoundedSeq(S, MaxChunks)}

InferPaths == {ButtonFile, WidgetFile, CardFile}

InitInfer ==
    /\ inPath \in InferPaths
    /\ inSource \in Sources(SupportedSnippets \cup UnsupportedSnippets)
    /\ info = NoInfo
    /\ rendered = <<>>
    /\ pc = "infer"
    /\ argv = <<>>
    /\ opts = NoOpts
    /\ MainIdle

\* line 210
Infer ==
    /\ pc = "infer"
    /\ info' = inferExportInfo(inPath, inSource)
    /\ pc' = "render"
    /\ UNCHANGED <<inPath, inSource, rendered, argv, opts>>
    /\ UNCHANGED <<fs, unreadable, unwritable, root, files, idx, log, reads,
                   written, skipped, exitCode, failedAt, run, fsStart, prev>>

\* line 211
Render ==
    /\ pc = "render"
    /\ rendered' = createTestTemplate(inPath, info)
    /\ pc' = "rendered"
    /\ UNCHANGED <<inPath, inSource, info, argv, opts>>
    /\ UNCHANGED <<fs, unreadable, unwritable, root, files, idx, log, reads,
                   written, skipped, exitCode, failedAt, run, fsStart, prev>>

NextInfer == Infer \/ Render

SpecInfer == InitInfer /\ [][NextInfer]_vars

---------------------------------------------------------------------------
(* The claims.                                                             *)

\* a run of main has read its options and listed its files
Scanned == pc \in {"loop", "done"}

Exists(F, p) == p \in DOMAIN F

IsTestFile(F, p) == Exists(F, p) /\ F[p].kind = "file" /\ endsWith(Last(p), TestSuffix)

\* a line of the run's output names p, as an absolute path or relative to cwd
LogMentions(p) ==
    \E k \in 1..Len(log) : log[k].path = p \/ log[k].path = relative(Cwd, p)

Reported(word, p) ==
    \E k \in 1..Len(log) : log[k] = Line("out", word, relative(Cwd, p))

\* the template main renders for component f from the source of snapshot F
Rendered(F, f) == createTestTemplate(f, inferExportInfo(f, F[f].text))

BaseName(f) == basename(Last(f), extname(Last(f)))

\* C1: in a run without --force, every test file that existed when the run
\* began keeps its content, no output line names it, and the component it
\* belongs to is not read.
C1_ExistingTestsUntouched ==
    (Scanned /\ ~opts.force) =>
        \A p \in DOMAIN fsStart :
            IsTestFile(fsStart, p) =>
                /\ Exists(fs, p)
                /\ fs[p] = fsStart[p]
                /\ ~LogMentions(p)
                /\ \A k \in 1..Len(files) :
                       getTestPath(files[k]) = p => files[k] \notin reads

\* C1 witness: a run without --force has ended after it skipped Button.tsx,
\* whose test file existed, and wrote the test file of another component.
C1_Witness ==
    /\ pc = "done"
    /\ exitCode = 0
    /\ ~opts.force
    /\ ~opts.dryRun
    /\ IsTestFile(fsStart, ButtonTest)
    /\ ButtonFile \in skipped
    /\ written # {}

\* C2: in a run with --dry-run the file system stays what it was when the run
\* began: the same files with the same content.
C2_DryRunWritesNothing ==
    (Scanned /\ opts.dryRun) => fs = fsStart

\* C2 witness: a run with --dry-run and --force has ended after it reported a
\* component whose test file exists and one whose test file does not.
C2_Witness ==
    /\ pc = "done"
    /\ exitCode = 0
    /\ opts.dryRun
    /\ opts.force
    /\ Exists(fsStart, ButtonTest)
    /\ ~Exists(fsStart, CardTest)
    /\ {ButtonFile, CardFile} \subseteq reads
    /\ LogMentions(ButtonTest)
    /\ LogMentions(CardTest)

\* C3 as stated: two successive completed runs on the same root without
\* --force: the second changes nothing, every file it finds has its test file
\* and is skipped.
C3_Original ==
    (/\ pc = "done"
     /\ exitCode = 0
     /\ prev.ran
     /\ prev.exitCode = 0
     /\ prev.root = root
     /\ ~prev.opts.force
     /\ ~opts.force)
    => /\ fs = fsStart
       /\ \A k \in 1..Len(files) :
              Exists(fsStart, getTestPath(files[k])) /\ files[k] \in skipped

\* C3 amended: the same, when the first of the two runs is not a dry run.
C3_Idempotent ==
    (/\ pc = "done"
     /\ exitCode = 0
     /\ prev.ran
     /\ prev.exitCode = 0
     /\ prev.root = root
     /\ ~prev.opts.force
     /\ ~prev.opts.dryRun
     /\ ~opts.force)
    => /\ fs = fsStart
       /\ \A k \in 1..Len(files) :
              Exists(fsStart, getTestPath(files[k])) /\ files[k] \in skipped

\* C3 witness: the second of two completed runs on src without --force has
\* skipped the three components, of which the first run wrote test files.
C3_Witness ==
    /\ pc = "done"
    /\ exitCode = 0
    /\ prev.ran
    /\ prev.exitCode = 0
    /\ prev.root = root
    /\ ~prev.opts.force
    /\ ~prev.opts.dryRun
    /\ ~opts.force
    /\ prev.written # {}
    /\ skipped = {ButtonFile, WidgetFile, CardFile}

\* C4: when a run with --force and without --dry-run completes, the test file
\* of every component found holds the template rendered for it; it is reported
\* as an overwrite when it existed and as a create when it did not.
C4_ForceOverwrites ==
    (pc = "done" /\ exitCode = 0 /\ opts.force /\ ~opts.dryRun) =>
        \A k \in 1..Len(files) :
            LET f == files[k]
                t == getTestPath(f)
            IN  /\ Exists(fs, t)
                /\ fs[t] = FileNode(Rendered(fsStart, f))
                /\ Exists(fsStart, t) =>
                       /\ Reported("Overwrote", t)
                       /\ ~Reported("Created", t)
                /\ ~Exists(fsStart, t) =>
                       /\ Reported("Created", t)
                       /\ ~Reported("Overwrote", t)

\* C4 witness: a completed run with --force has replaced the old content of
\* Button.test.tsx and created Card.test.tsx.
C4_Witness ==
    /\ pc = "done"
    /\ exitCode = 0
    /\ opts.force
    /\ ~opts.dryRun
    /\ IsTestFile(fsStart, ButtonTest)
    /\ fsStart[ButtonTest].text = OldTest
    /\ ~Exists(fsStart, CardTest)
    /\ {ButtonTest, CardTest} \subseteq written
    /\ fs[ButtonTest].text # OldTest

\* what C5 says of one result f, but for the directories above it
SelectedName(f) ==
    /\ ~endsWith(Last(f), TestSuffix)
    /\ ~endsWith(Last(f), StoriesSuffix)
    /\ ~startsWith(Last(f), <<".">>)
    /\ extname(Last(f)) = <<".","t","s","x">>
    /\ f \notin prev.written \cup written

\* C5 as stated: no result is a test, stories or hidden file, every result has
\* the extension .tsx, no result lies under a directory named node_modules,
\* dist, build or .git, and no file the tool wrote is a result.
C5_Original ==
    Scanned =>
        \A k \in 1..Len(files) :
            /\ SelectedName(files[k])
            /\ \A j \in 1..(Len(files[k]) - 1) : files[k][j] \notin ExcludedDirs

\* C5 amended: the same, the directories being those below the root of the
\* scan: the root itself is listed whatever its name and place.
C5_Exclusion ==
    Scanned =>
        \A k \in 1..Len(files) :
            /\ SelectedName(files[k])
            /\ startsWith(files[k], root)
            /\ \A j \in (Len(root) + 1)..(Len(files[k]) - 1) :
                   files[k][j] \notin ExcludedDirs

\* C5 witness: a later run has listed the working directory, which holds
\* .git, build, and src with a stories file, a hidden file, node_modules,
\* ui/dist and test files the tool wrote, and found the three components.
C5_Witness ==
    /\ pc = "done"
    /\ root = Cwd
    /\ prev.written # {}
    /\ \A t \in prev.written : Exists(fs, t)
    /\ Exists(fs, join(ModulesDir, <<"L","i","b",".","t","s","x">>))
    /\ files = <<ButtonFile, WidgetFile, CardFile>>

\* C6 as stated: the import line names the module "./<base>"; widget.tsx with
\* no recognized export gives Widget and import Widget from "./widget";
C6_Original ==
    (pc \in {"render", "rendered"}) =>
        /\ endsWith(info.importLine, <<" ","f","r","o","m"," ","\"",".","/">> \o BaseName(inPath) \o <<"\"",";">>)
        /\ (inPath = WidgetFile /\ inSource = SnipPlain) =>
               /\ info.importName = <<"W","i","d","g","e","t">>
               /\ info.importLine = <<"i","m","p","o","r","t"," ","W","i","d","g","e","t"," ","f","r","o","m"," ","\"",".","/","w","i","d","g","e","t","\"",";">>

FirstNonFlag(args) ==
    LET nf == {k \in 1..Len(args) : ~startsWith(args[k], <<"-">>)} IN
    IF nf = {} THEN DefaultRoot
    ELSE args[CHOOSE k \in nf : \A m \in nf : k <= m]

\* C7 as stated: rootDir is the first token that does not start with "-" (src
\* when there is none), dryRun and force say whether their flag occurs.
C7_Original ==
    (pc = "parsed") =>
        /\ opts.rootDir = FirstNonFlag(argv)
        /\ opts.dryRun = (\E k \in 1..Len(argv) : argv[k] = DryRunFlag)
        /\ opts.force = (\E k \in 1..Len(argv) : argv[k] = ForceFlag)

\* C8: a run ends with status 1 exactly when a read or a write failed; it then
\* stopped at the failing file k with the error reported last: the test files
\* written before k hold their templates, and no file after k was read, written
\* or reported.  A run without a failure ends with status 0.
C8_FailFast ==
    (pc = "done") =>
        /\ (failedAt = 0) = (exitCode = 0)
        /\ (failedAt > 0) = (exitCode = 1)
        /\ failedAt > 0 =>
              /\ idx = failedAt
              /\ Last(log).stream = "err"
              /\ \/ readFileFails(fsStart, unreadable, files[failedAt])
                 \/ writeFileFails(fsStart, unwritable, getTestPath(files[failedAt]))
              /\ \A k \in 1..Len(files) :
                    LET f == files[k]
                        t == getTestPath(f)
                    IN  /\ (k < failedAt /\ t \in written) =>
                               (Exists(fs, t) /\ fs[t] = FileNode(Rendered(fsStart, f)))
                        /\ (k > failedAt) =>
                               /\ f \notin reads
                               /\ t \notin written
                               /\ ~LogMentions(t)
                               /\ Exists(fs, t) = Exists(fsStart, t)
                               /\ Exists(fs, t) => fs[t] = fsStart[t]

\* C8 witness: the read of the second of three components failed after the
\* test file of the first was written.
C8_Witness ==
    /\ pc = "done"
    /\ exitCode = 1
    /\ failedAt = 2
    /\ Len(files) = 3
    /\ getTestPath(files[1]) \in written
    /\ ~Exists(fs, getTestPath(files[3]))

\* C9: the result comes from the first of the four rules, in the order of the
\* code, that matches anywhere in the text, and from the fallback when none
\* does; a text with both `export default function Foo` and
\* `export const Bar = (` gives Foo with a default import.
C9_RulePriority ==
    (pc \in {"render", "rendered"}) =>
        LET rel == relativeImport(inPath)
            m1 == match(inSource, ReDefaultFunction)
            m2 == match(inSource, ReDefault)
            m3 == match(inSource, ReFunction)
            m4 == match(inSource, ReConst)
            fb == fallbackName(BaseName(inPath))
        IN  /\ info.importName =
                   (CASE m1.ok -> m1.name
                      [] ~m1.ok /\ m2.ok -> m2.name
                      [] ~m1.ok /\ ~m2.ok /\ m3.ok -> m3.name
                      [] ~m1.ok /\ ~m2.ok /\ ~m3.ok /\ m4.ok -> m4.name
                      [] OTHER -> fb)
            /\ info.importLine =
                   (IF m1.ok \/ m2.ok \/ ~(m3.ok \/ m4.ok)
                    THEN defaultImportLine(info.importName, rel)
                    ELSE namedImportLine(info.importName, rel))
            /\ (/\ includes(inSource, <<"e","x","p","o","r","t"," ","d","e","f","a","u","l","t"," ","f","u","n","c","t","i","o","n"," ","F","o","o">>)
                /\ includes(inSource, <<"e","x","p","o","r","t"," ","c","o","n","s","t"," ","B","a","r"," ","="," ","(">>)) =>
                   /\ info.importName = <<"F","o","o">>
                   /\ startsWith(info.importLine, <<"i","m","p","o","r","t"," ","F","o","o"," ","f","r","o","m"," ">>)

\* C9 witness: `export const Bar = (` stands before `export default function
\* Foo` in the text, and the result is Foo.
C9_Witness ==
    /\ pc = "rendered"
    /\ inSource = SnipConst \o SnipDefaultFunction
    /\ info.importName = <<"F","o","o">>
    /\ includes(rendered, <<"i","m","p","o","r","t"," ","F","o","o"," ","f","r","o","m"," ">>)

\* C10 as stated: a text whose exports are all of unsupported forms gives the
\* fallback: the capitalized base name of the file with a default import.
C10_Original ==
    (pc \in {"render", "rendered"} /\ inSource \in Sources(UnsupportedSnippets)) =>
        /\ info.importName = fallbackName(BaseName(inPath))
        /\ info.importLine =
               defaultImportLine(fallbackName(BaseName(inPath)), relativeImport(inPath))

====
